---- MODULE Spec2Model ----
(***************************************************************************)
(* Model of xdts2sts: the keyframe optimizer/expander (parser.rs,          *)
(* converter.rs), the schema normalizer (parser.rs), the STS binary        *)
(* encoder (converter.rs) and the batch driver (main.rs).                  *)
(***************************************************************************)
EXTENDS Integers, Sequences, FiniteSets, TLC

\* ------------------------------------------------------------------------
\* Bounds of the keyframe pipeline
\* ------------------------------------------------------------------------
MaxLen == 3
MaxFrame == 3
MaxCell == 2
MaxFrameCount == 4

VARIABLES
    cands,        \* the candidate keyframe list handed to optimize_frames
    frames,       \* Vec<Frame> after optimize_frames
    frame_count,  \* the Timesheet's frame_count used by expand_frames
    cells,        \* result of expand_frames: the dense array and the out-of-range flag
    rederived,    \* keyframes re-derived from the dense array, compacted again
    kpc           \* position in the keyframe pipeline

kvars == <<cands, frames, frame_count, cells, rederived, kpc>>

VARIABLES
    timesheet,    \* the Timesheet handed to save_sts
    out_file,     \* the file at output_path: [exists, bytes]
    save_result,  \* what save_sts returned and the warnings it printed
    save_io,      \* what the file system did during the call
    spc           \* position of the encoder

svars == <<timesheet, out_file, save_result, save_io, spc>>

VARIABLES
    in_path,      \* the path handed to load_timesheets
    in_content,   \* what the file at in_path holds
    loaded,       \* the Result returned by load_timesheets
    ppc           \* position of the normalizer

pvars == <<in_path, in_content, loaded, ppc>>

VARIABLES
    cell_track,   \* a Dialect A track: the raw per-frame entries with their tokens
    cell_values,  \* parse_xdts_cell_value of the first token of every entry
    cell_frames,  \* the layer's frames: the candidates after optimize_frames
    cell_dense,   \* the dense array expand_frames derives from cell_frames
    cell_pc       \* position of the token pipeline

cvars == <<cell_track, cell_values, cell_frames, cell_dense, cell_pc>>

VARIABLES
    args,             \* the command-line arguments after the program name
    env,              \* what the system allows: console, output directory, output paths
    rpc,              \* position of run
    valid_files,      \* main.rs:112
    valid_folders,    \* main.rs:113
    is_single_file_mode,
    folder_idx,       \* index of the next folder of valid_folders
    work,             \* the files of the loop in progress (valid_files or timesheet_files)
    work_idx,         \* index of the next file of work
    output_dir,       \* the output_dir argument of process_file
    timesheets,       \* process_file: the loaded timesheets of the current file
    ts_idx,           \* process_file: 0-based index of the next timesheet
    output_paths,     \* process_file: paths written for the current file
    all_output_paths, \* main.rs:108
    total_files,      \* main.rs:109
    fs,               \* the STS files on disk: output path -> bytes
    conversions,      \* every save_sts call of the run with its result
    log               \* error lines and dialogs shown to the user

rvars == <<args, env, rpc, valid_files, valid_folders, is_single_file_mode, folder_idx,
           work, work_idx, output_dir, timesheets, ts_idx, output_paths,
           all_output_paths, total_files, fs, conversions, log>>

\* types.rs: struct Frame { frame: u32, cell: u16 }
Frame(f, c) == [frame |-> f, cell |-> c]

FrameVals == [frame : 0..MaxFrame, cell : 0..MaxCell]

CandLists == UNION {[1..n -> FrameVals] : n \in 0..MaxLen}

Min(a, b) == IF a < b THEN a ELSE b

\* Vec::remove(i) on a 1-based sequence
Remove(s, i) == [j \in 1..(Len(s) - 1) |-> IF j < i THEN s[j] ELSE s[j + 1]]

\* parser.rs:231-239, the back-to-front scan; i is the code's 0-based index
RECURSIVE DedupLoop(_, _)
DedupLoop(fr, i) ==
    IF i > 0
    THEN LET fr2 == IF fr[i + 1].cell = fr[i].cell THEN Remove(fr, i + 1) ELSE fr
             i2 == IF i > 0 THEN i - 1 ELSE i
         IN  DedupLoop(fr2, i2)
    ELSE fr

\* mutant: the scan stops before comparing index 1 with index 0
RECURSIVE DedupLoopSkipHead(_, _)
DedupLoopSkipHead(fr, i) ==
    IF i > 1
    THEN LET fr2 == IF fr[i + 1].cell = fr[i].cell THEN Remove(fr, i + 1) ELSE fr
         IN  DedupLoopSkipHead(fr2, i - 1)
    ELSE fr

optimize_frames_skip_head(fr) ==
    IF fr = <<>>
    THEN fr
    ELSE LET f1 == IF fr[1].frame # 0 THEN <<Frame(0, 0)>> \o fr ELSE fr
         IN  DedupLoopSkipHead(f1, Len(f1) - 1)

\* mutant: no synthetic (0,0) keyframe is prepended
optimize_frames_no_prepend(fr) ==
    IF fr = <<>> THEN fr ELSE DedupLoop(fr, Len(fr) - 1)

\* parser.rs:220-240
optimize_frames(fr) ==
    IF fr = <<>>
    THEN fr
    ELSE LET f1 == IF fr[1].frame # 0 THEN <<Frame(0, 0)>> \o fr ELSE fr
         IN  DedupLoop(f1, Len(f1) - 1)

\* converter.rs:124-139, one pass of the outer loop per keyframe; i is 0-based.
\* acc.cells is the Vec (index p holds frame p-1), acc.oob records a write
\* at an index >= frame_count (an index panic in the build).
RECURSIVE ExpandLoop(_, _, _, _)
ExpandLoop(fr, fc, i, acc) ==
    IF i >= Len(fr)
    THEN acc
    ELSE LET start_frame == fr[i + 1].frame
             cell_value  == fr[i + 1].cell
             end_frame   == IF i + 1 < Len(fr) THEN fr[i + 2].frame ELSE fc
             upper       == Min(end_frame, fc)
         IN  ExpandLoop(fr, fc, i + 1,
                 [cells |-> [p \in 1..fc |->
                                IF start_frame <= p - 1 /\ p - 1 < upper
                                THEN cell_value ELSE acc.cells[p]],
                  oob   |-> acc.oob \/ (start_frame < upper /\ upper > fc)])

\* mutant: the end of a run is not clamped to frame_count
RECURSIVE ExpandLoopNoClamp(_, _, _, _)
ExpandLoopNoClamp(fr, fc, i, acc) ==
    IF i >= Len(fr)
    THEN acc
    ELSE LET start_frame == fr[i + 1].frame
             cell_value  == fr[i + 1].cell
             end_frame   == IF i + 1 < Len(fr) THEN fr[i + 2].frame ELSE fc
             upper       == end_frame
         IN  ExpandLoopNoClamp(fr, fc, i + 1,
                 [cells |-> [p \in 1..fc |->
                                IF start_frame <= p - 1 /\ p - 1 < upper
                                THEN cell_value ELSE acc.cells[p]],
                  oob   |-> acc.oob \/ (start_frame < upper /\ upper > fc)])

expand_frames_no_clamp(fr, fc) ==
    ExpandLoopNoClamp(fr, fc, 0, [cells |-> [p \in 1..fc |-> 0], oob |-> FALSE])

\* mutant: the last keyframe fills one frame only instead of up to frame_count
RECURSIVE ExpandLoopShortTail(_, _, _, _)
ExpandLoopShortTail(fr, fc, i, acc) ==
    IF i >= Len(fr)
    THEN acc
    ELSE LET start_frame == fr[i + 1].frame
             cell_value  == fr[i + 1].cell
             end_frame   == IF i + 1 < Len(fr) THEN fr[i + 2].frame ELSE start_frame + 1
             upper       == Min(end_frame, fc)
         IN  ExpandLoopShortTail(fr, fc, i + 1,
                 [cells |-> [p \in 1..fc |->
                                IF start_frame <= p - 1 /\ p - 1 < upper
                                THEN cell_value ELSE acc.cells[p]],
                  oob   |-> acc.oob])

expand_frames_short_tail(fr, fc) ==
    ExpandLoopShortTail(fr, fc, 0, [cells |-> [p \in 1..fc |-> 0], oob |-> FALSE])

\* converter.rs:117-142; the result is the Vec (.cells) and whether the build
\* would have panicked on an out-of-range index (.oob)
expand_frames(fr, fc) ==
    ExpandLoop(fr, fc, 0, [cells |-> [p \in 1..fc |-> 0], oob |-> FALSE])

\* spec.md section 8, "expand_to_keyframes": scan the dense array and emit a
\* keyframe at position 0 and at every position whose value differs from the
\* value before it
RECURSIVE ScanChanges(_, _)
ScanChanges(d, p) ==
    IF p > Len(d)
    THEN <<>>
    ELSE (IF p = 1 \/ d[p] # d[p - 1] THEN <<Frame(p - 1, d[p])>> ELSE <<>>)
         \o ScanChanges(d, p + 1)

expand_to_keyframes(d) == ScanChanges(d, 1)

\* ------------------------------------------------------------------------
\* The keyframe pipeline as a state machine
\* ------------------------------------------------------------------------
KInit ==
    /\ cands \in CandLists
    /\ frame_count \in 0..MaxFrameCount
    /\ frames = <<>>
    /\ cells = [cells |-> <<>>, oob |-> FALSE]
    /\ rederived = <<>>
    /\ kpc = "candidates"

\* parse_*_timetable calls optimize_frames on the candidates of a track
Compact ==
    /\ kpc = "candidates"
    /\ frames' = optimize_frames(cands)
    /\ kpc' = "compacted"
    /\ UNCHANGED <<cands, frame_count, cells, rederived>>

\* save_sts calls expand_frames on the layer's keyframes
Expand ==
    /\ kpc = "compacted"
    /\ cells' = expand_frames(frames, frame_count)
    /\ kpc' = "expanded"
    /\ UNCHANGED <<cands, frames, frame_count, rederived>>

\* the dense array is scanned for changes and compacted again
Rederive ==
    /\ kpc = "expanded"
    /\ ~cells.oob
    /\ rederived' = optimize_frames(expand_to_keyframes(cells.cells))
    /\ kpc' = "rederived"
    /\ UNCHANGED <<cands, frames, frame_count, cells>>

KNext == Compact \/ Expand \/ Rederive

\* ------------------------------------------------------------------------
\* The binary encoder (converter.rs)
\* ------------------------------------------------------------------------
\* Bounds of the encoder's inputs
MaxSaveLayers == 2
MaxSaveFrames == 3

\* converter.rs:18 and converter.rs:22
MaxLayerCount == 255
MaxSaveFrameCount == 65535

\* types.rs: struct Layer { name, frames }, struct Timesheet { name, frame_count, layers }
\* Text is a sequence of Unicode code points.
Layer(n, fr) == [name |-> n, frames |-> fr]

Timesheet(n, fc, ls) == [name |-> n, frame_count |-> fc, layers |-> ls]

NoFile == [exists |-> FALSE, bytes |-> <<>>]

NoResult == [result |-> "none", warnings |-> <<>>]

NoIO == [create |-> FALSE, fail_write |-> 0]

\* decimal digits of n as ASCII bytes
RECURSIVE DecimalDigits(_)
DecimalDigits(n) ==
    IF n < 10 THEN <<48 + n>> ELSE DecimalDigits(n \div 10) \o <<48 + (n % 10)>>

\* SHIFT_JIS.encode for one code point: ASCII is kept, U+00A5 and U+203E map to
\* 0x5C and 0x7E, half-width katakana to one byte, U+3042 to 0x82 0xA0, and a
\* code point without a Shift-JIS mapping to the numeric reference &#N;
SJISMappable(c) == c < 128 \/ c = 165 \/ c = 8254 \/ c \in 65377..65439 \/ c = 12354

SJISChar(c) ==
    IF c < 128 THEN <<c>>
    ELSE IF c = 165 THEN <<92>>
    ELSE IF c = 8254 THEN <<126>>
    ELSE IF c \in 65377..65439 THEN <<c - 65377 + 161>>
    ELSE IF c = 12354 THEN <<130, 160>>
    ELSE <<38, 35>> \o DecimalDigits(c) \o <<59>>

\* concatenation of the sequences parts[lo], ..., parts[hi], in order
RECURSIVE ConcatRange(_, _, _)
ConcatRange(parts, lo, hi) ==
    IF lo > hi THEN <<>>
    ELSE IF lo = hi THEN parts[lo]
    ELSE LET mid == (lo + hi) \div 2
         IN  ConcatRange(parts, lo, mid) \o ConcatRange(parts, mid + 1, hi)

ConcatAll(parts) == ConcatRange(parts, 1, Len(parts))

\* q[lo] + ... + q[hi]
RECURSIVE SumRange(_, _, _)
SumRange(q, lo, hi) ==
    IF lo > hi THEN 0
    ELSE IF lo = hi THEN q[lo]
    ELSE LET mid == (lo + hi) \div 2
         IN  SumRange(q, lo, mid) + SumRange(q, mid + 1, hi)

\* converter.rs:89, (name_bytes, _, had_errors) = SHIFT_JIS.encode(name)
SJISEncode(name) ==
    [bytes |-> ConcatAll([k \in 1..Len(name) |-> SJISChar(name[k])]),
     had_errors |-> \E k \in 1..Len(name) : ~SJISMappable(name[k])]

\* u16::to_le_bytes
LE16(v) == <<v % 256, v \div 256>>

\* b"ShiraheiTimeSheet"
Identifier == <<83, 104, 105, 114, 97, 104, 101, 105, 84, 105, 109, 101, 83, 104, 101, 101, 116>>

\* converter.rs:50-65; "as u8" and "as u16" truncate
HeaderBytes(layer_count, fc) ==
    <<17>> \o Identifier \o <<layer_count % 256>> \o LE16(fc % 65536) \o <<0, 0>>

\* the same sequence, with every element evaluated once
Materialize(q) == SubSeq(q, 1, Len(q))

\* converter.rs:27-31, all_layers_cells
AllLayersCells(ts) ==
    Materialize([l \in 1..Len(ts.layers) |->
        Materialize(expand_frames(ts.layers[l].frames, ts.frame_count).cells)])

\* converter.rs:69-81, every cell of every layer as two little-endian bytes
GridBytes(all_cells, fc) ==
    [k \in 1..(2 * fc * Len(all_cells)) |->
        LET cell == all_cells[((k - 1) \div (2 * fc)) + 1][(((k - 1) % (2 * fc)) \div 2) + 1]
        IN  IF (k - 1) % 2 = 0 THEN cell % 256 ELSE cell \div 256]

\* mutant: the name is cut one byte short of the limit
NameEntryCut254(name) ==
    LET enc == SJISEncode(name).bytes
        name_bytes == IF Len(enc) > 254 THEN SubSeq(enc, 1, 254) ELSE enc
    IN  <<Len(name_bytes) % 256>> \o name_bytes

\* converter.rs:95-104, one entry of the name table
NameEntry(name) ==
    LET enc == SJISEncode(name).bytes
        name_bytes == IF Len(enc) > 255 THEN SubSeq(enc, 1, 255) ELSE enc
    IN  <<Len(name_bytes) % 256>> \o name_bytes

\* converter.rs:85-105, the name table
NameTable(ls) == ConcatAll([l \in 1..Len(ls) |-> NameEntry(ls[l].name)])

\* converter.rs:91-97, the warnings printed for the layer names
NameWarnings(ls) ==
    ConcatAll([l \in 1..Len(ls) |->
        LET enc == SJISEncode(ls[l].name)
        IN  (IF enc.had_errors THEN <<[warning |-> "unencodable", layer |-> l]>> ELSE <<>>)
            \o (IF Len(enc.bytes) > 255 THEN <<[warning |-> "truncated", layer |-> l]>> ELSE <<>>)])

\* converter.rs:53-105, everything written when no write fails
FileBytes(ts) ==
    HeaderBytes(Len(ts.layers), ts.frame_count)
        \o GridBytes(AllLayersCells(ts), ts.frame_count)
        \o NameTable(ts.layers)

\* converter.rs:53-79, the bytes in the file when the w-th write_all fails:
\* writes 1..5 are the header fields, write 6 is the first cell or name length
WrittenBefore(w) ==
    IF w = 1 THEN 0 ELSE IF w = 2 THEN 1 ELSE IF w = 3 THEN 18
    ELSE IF w = 4 THEN 19 ELSE IF w = 5 THEN 21 ELSE 23

\* the environment of one save_sts call: whether File::create succeeds, and
\* which write_all (if any) fails
IOOutcomes(ts) ==
    {[create |-> FALSE, fail_write |-> 0], [create |-> TRUE, fail_write |-> 0]}
        \cup {[create |-> TRUE, fail_write |-> w] :
                 w \in {v \in 1..6 : v <= 5 \/ ts.layers # <<>>}}

\* mutant: the file is created before the limits are checked
save_sts_create_first(ts, old_file, io) ==
    IF ~io.create
    THEN [result |-> "IOError", warnings |-> <<>>, file |-> old_file]
    ELSE IF Len(ts.layers) > MaxLayerCount \/ ts.frame_count > MaxSaveFrameCount
    THEN [result |-> "LimitExceeded", warnings |-> <<>>,
          file |-> [exists |-> TRUE, bytes |-> <<>>]]
    ELSE IF io.fail_write # 0
    THEN [result |-> "IOError", warnings |-> <<>>,
          file |-> [exists |-> TRUE,
                    bytes |-> SubSeq(FileBytes(ts), 1, WrittenBefore(io.fail_write))]]
    ELSE [result |-> "Ok", warnings |-> NameWarnings(ts.layers),
          file |-> [exists |-> TRUE, bytes |-> FileBytes(ts)]]

\* converter.rs:8-114 with verbose = false (main.rs:345 passes the flag of
\* process_file, which run always calls with false)
save_sts(ts, old_file, io) ==
    IF Len(ts.layers) > MaxLayerCount
    THEN [result |-> "LimitExceeded", warnings |-> <<>>, file |-> old_file]
    ELSE IF ts.frame_count > MaxSaveFrameCount
    THEN [result |-> "LimitExceeded", warnings |-> <<>>, file |-> old_file]
    ELSE IF ~io.create
    THEN [result |-> "IOError", warnings |-> <<>>, file |-> old_file]
    ELSE IF io.fail_write # 0
    THEN [result |-> "IOError", warnings |-> <<>>,
          file |-> [exists |-> TRUE,
                    bytes |-> SubSeq(FileBytes(ts), 1, WrittenBefore(io.fail_write))]]
    ELSE [result |-> "Ok", warnings |-> NameWarnings(ts.layers),
          file |-> [exists |-> TRUE, bytes |-> FileBytes(ts)]]

\* ---- inputs of the encoder ----
Repeat(c, n) == [k \in 1..n |-> c]

ShortNames == {<<>>, <<65>>, <<12354, 65>>, <<8364>>, <<65393, 165>>}

LongNames == {Repeat(65, 255), Repeat(65, 256), Repeat(12354, 128), Repeat(8364, 40)}

SaveFrameLists ==
    {<<>>, <<Frame(0, 0)>>, <<Frame(0, 1), Frame(2, 0)>>, <<Frame(0, 258), Frame(1, 65535)>>,
     <<Frame(0, 0), Frame(5, 7)>>}

SmallLayers == {Layer(n, fr) : n \in {<<>>, <<12354, 65>>}, fr \in SaveFrameLists}

NamedLayers == {Layer(n, <<Frame(0, 1)>>) : n \in ShortNames \cup LongNames}

SheetName == <<97>>

SaveSheets ==
    \* small sheets
    {Timesheet(SheetName, fc, ls) :
        fc \in 0..MaxSaveFrames,
        ls \in UNION {[1..n -> SmallLayers] : n \in 0..MaxSaveLayers}}
    \* every kind of layer name
    \cup {Timesheet(SheetName, 2, <<l>>) : l \in NamedLayers}
    \* layer counts at the limit
    \cup {Timesheet(SheetName, fc, Repeat(l, n)) :
            fc \in 0..1, n \in {MaxLayerCount, MaxLayerCount + 1},
            l \in {Layer(<<65>>, <<>>), Layer(<<>>, <<Frame(0, 258)>>)}}
    \* frame counts at the limit
    \cup {Timesheet(SheetName, fc, ls) :
            fc \in {MaxSaveFrameCount, MaxSaveFrameCount + 1},
            ls \in {<<>>, <<Layer(<<65>>, <<Frame(0, 1), Frame(2, 258)>>)>>}}

OldFiles == {NoFile, [exists |-> TRUE, bytes |-> <<9>>]}

SInit ==
    /\ timesheet \in SaveSheets
    /\ out_file \in OldFiles
    /\ save_result = NoResult
    /\ save_io = NoIO
    /\ spc = "ready"

\* one call of save_sts(timesheet, output_path, false)
SaveSts ==
    /\ spc = "ready"
    /\ \E io \in IOOutcomes(timesheet) :
          LET r == save_sts(timesheet, out_file, io)
          IN  /\ save_result' = [result |-> r.result, warnings |-> r.warnings]
              /\ out_file' = r.file
              /\ save_io' = io
    /\ spc' = "saved"
    /\ UNCHANGED timesheet

\* ------------------------------------------------------------------------
\* The schema normalizer (parser.rs)
\* ------------------------------------------------------------------------
\* Bounds of the normalizer's inputs
MaxEntries == 3
MaxEntryFrame == 2
MaxTables == 2

\* "SYMBOL_NULL_CELL", "SYMBOL_TICK_1", "SYMBOL_TICK_2", "SYMBOL_HYPHEN"
SymbolNullCell == <<83, 89, 77, 66, 79, 76, 95, 78, 85, 76, 76, 95, 67, 69, 76, 76>>

SymbolTick1 == <<83, 89, 77, 66, 79, 76, 95, 84, 73, 67, 75, 95, 49>>

SymbolTick2 == <<83, 89, 77, 66, 79, 76, 95, 84, 73, 67, 75, 95, 50>>

SymbolHyphen == <<83, 89, 77, 66, 79, 76, 95, 72, 89, 80, 72, 69, 78>>

\* Option<u16>
Some(v) == [some |-> TRUE, v |-> v]

None == [some |-> FALSE, v |-> 0]

\* char::is_ascii_digit
IsAsciiDigit(c) == c \in 48..57

RECURSIVE DigitsValue(_)
DigitsValue(d) ==
    IF d = <<>> THEN 0
    ELSE 10 * DigitsValue(SubSeq(d, 1, Len(d) - 1)) + (d[Len(d)] - 48)

\* str::parse::<u16>: an optional '+', then one or more digits, at most 65535
ParseU16(sq) ==
    LET body == IF sq # <<>> /\ sq[1] = 43 THEN Tail(sq) ELSE sq
    IN  IF /\ body # <<>>
           /\ \A k \in 1..Len(body) : IsAsciiDigit(body[k])
           /\ DigitsValue(body) <= 65535
        THEN Some(DigitsValue(body))
        ELSE None

\* parser.rs:202-203, the maximal run of trailing ASCII digits
TrailingDigits(value) ==
    LET runs == {k \in 0..Len(value) :
                    \A j \in (Len(value) - k + 1)..Len(value) : IsAsciiDigit(value[j])}
        n == CHOOSE k \in runs : \A m \in runs : m <= k
    IN  SubSeq(value, Len(value) - n + 1, Len(value))

\* the trailing digits are taken before the symbolic tokens are looked at
parse_xdts_cell_value_digits_first(value) ==
    IF value = SymbolNullCell THEN Some(0)
    ELSE LET digits == TrailingDigits(value)
         IN  IF digits # <<>> THEN ParseU16(digits)
             ELSE None

\* parser.rs:192-210
parse_xdts_cell_value(value) ==
    IF value = SymbolNullCell THEN Some(0)
    ELSE IF value \in {SymbolTick1, SymbolTick2, SymbolHyphen} THEN None
    ELSE LET digits == TrailingDigits(value)
         IN  IF digits # <<>> THEN ParseU16(digits) ELSE None

\* parser.rs:212-218
parse_tdts_cell_value(value) ==
    IF value = SymbolNullCell THEN 0
    ELSE IF ParseU16(value).some THEN ParseU16(value).v ELSE 0

\* frame_data.data.get(0).and_then(|d| d.values.get(0))
FirstValue(frame_data) ==
    IF frame_data.data # <<>> /\ frame_data.data[1].values # <<>>
    THEN [some |-> TRUE, v |-> frame_data.data[1].values[1]]
    ELSE [some |-> FALSE, v |-> <<>>]

\* parser.rs:111-122, the candidate keyframes of a Dialect A track
XdtsCandidates(track) ==
    ConcatAll([k \in 1..Len(track.frames) |->
        LET value == FirstValue(track.frames[k])
        IN  IF value.some /\ parse_xdts_cell_value(value.v).some
            THEN <<Frame(track.frames[k].frame, parse_xdts_cell_value(value.v).v)>>
            ELSE <<>>])

\* parser.rs:166-175, the candidate keyframes of a Dialect B track
TdtsCandidates(track) ==
    ConcatAll([k \in 1..Len(track.frames) |->
        LET value == FirstValue(track.frames[k])
        IN  IF value.some
            THEN <<Frame(track.frames[k].frame, parse_tdts_cell_value(value.v))>>
            ELSE <<>>])

\* format!("Layer {}", track.track_no)
SyntheticName(track_no) == <<76, 97, 121, 101, 114, 32>> \o DecimalDigits(track_no)

\* names.get(track.track_no).cloned().unwrap_or_else(|| format!("Layer {}", ..))
LayerName(names, track_no) ==
    IF track_no < Len(names) THEN names[track_no + 1] ELSE SyntheticName(track_no)

\* time_table_headers.iter().find(|h| h.field_id == field_id): index, 0 if none
FindHeader(headers, field_id) ==
    LET hits == {k \in 1..Len(headers) : headers[k].field_id = field_id}
    IN  IF hits = {} THEN 0 ELSE CHOOSE k \in hits : \A m \in hits : k <= m

\* fields.iter().find(|f| f.field_id == 4): index, 0 if none
FindField(fields, field_id) ==
    LET hits == {k \in 1..Len(fields) : fields[k].field_id = field_id}
    IN  IF hits = {} THEN 0 ELSE CHOOSE k \in hits : \A m \in hits : k <= m

\* parser.rs:81-139
parse_xdts_timetable(name, time_table) ==
    IF time_table.fields = <<>>
    THEN Timesheet(name, time_table.duration, <<>>)
    ELSE LET field == time_table.fields[1]
             h == FindHeader(time_table.time_table_headers, field.field_id)
             layers ==
                 IF h # 0
                 THEN [t \in 1..Len(field.tracks) |->
                          Layer(LayerName(time_table.time_table_headers[h].names,
                                          field.tracks[t].track_no),
                                optimize_frames(XdtsCandidates(field.tracks[t])))]
                 ELSE <<>>
         IN  Timesheet(name, time_table.duration, layers)

\* parser.rs:141-190
parse_tdts_timetable(name, time_table) ==
    LET f == FindField(time_table.fields, 4)
        h == FindHeader(time_table.time_table_headers, 4)
        layers ==
            IF f # 0 /\ h # 0
            THEN [t \in 1..Len(time_table.fields[f].tracks) |->
                     Layer(LayerName(time_table.time_table_headers[h].names,
                                     time_table.fields[f].tracks[t].track_no),
                           optimize_frames(TdtsCandidates(time_table.fields[f].tracks[t])))]
            ELSE <<>>
    IN  Timesheet(name, time_table.duration, layers)

\* Path::file_name of [dir, stem, ext]
Dot == <<46>>

FileName(path) == IF path.ext.some THEN path.stem \o Dot \o path.ext.v ELSE path.stem

\* "->"
Arrow == <<45, 62>>

Ok(v) == [ok |-> TRUE, err |-> "", value |-> v]

Err(e) == [ok |-> FALSE, err |-> e, value |-> <<>>]

\* parser.rs:21-39; the file holds a banner line and a document that
\* deserializes as XDTSRoot, as TDTSRoot, or as neither
load_xdts(path, content) ==
    IF content.kind # "xdts"
    THEN Err("FormatError")
    ELSE Ok([k \in 1..Len(content.root.time_tables) |->
                parse_xdts_timetable(
                    FileName(path) \o Arrow \o content.root.time_tables[k].name,
                    content.root.time_tables[k])])

\* parser.rs:41-65
load_tdts(path, content) ==
    IF content.kind # "tdts"
    THEN Err("FormatError")
    ELSE Ok(ConcatAll([i \in 1..Len(content.root.time_sheets) |->
                LET time_sheet == content.root.time_sheets[i]
                IN  ConcatAll([k \in 1..Len(time_sheet.time_tables) |->
                        LET time_table == time_sheet.time_tables[k]
                        IN  IF time_table.fields # <<>>
                            THEN <<parse_tdts_timetable(
                                    FileName(path) \o Arrow \o time_sheet.header.cut
                                        \o Arrow \o time_table.name,
                                    time_table)>>
                            ELSE <<>>])]))

\* str::to_lowercase on ASCII text
ToLowercase(sq) == [k \in 1..Len(sq) |-> IF sq[k] \in 65..90 THEN sq[k] + 32 ELSE sq[k]]

\* "xdts", "tdts"
ExtXdts == <<120, 100, 116, 115>>

ExtTdts == <<116, 100, 116, 115>>

\* parser.rs:7-19
load_timesheets(path, content) ==
    IF ~path.ext.some THEN Err("NoExtension")
    ELSE IF ToLowercase(path.ext.v) = ExtXdts THEN load_xdts(path, content)
    ELSE IF ToLowercase(path.ext.v) = ExtTdts THEN load_tdts(path, content)
    ELSE Err("UnsupportedFormat")

\* ---- inputs of the normalizer (types.rs:52-91) ----
DataItem(vs) == [values |-> vs]

FrameData(f, d) == [frame |-> f, data |-> d]

Track(no, fds) == [track_no |-> no, frames |-> fds]

Field(id, trs) == [field_id |-> id, tracks |-> trs]

TimeTableHeader(id, ns) == [field_id |-> id, names |-> ns]

TimeTable(n, d, flds, hs) ==
    [name |-> n, duration |-> d, fields |-> flds, time_table_headers |-> hs]

TimeSheet(cut, tts) == [header |-> [cut |-> cut], time_tables |-> tts]

Path(dir, stem, ext) == [dir |-> dir, stem |-> stem, ext |-> ext]

\* the names "A", "B"
NameA == <<65>>

NameB == <<66>>

\* the tokens "1", "2", "SYMBOL_NULL_CELL", "SYMBOL_TICK_1"
EntryTokens == {<<49>>, <<50>>, SymbolNullCell, SymbolTick1}

\* raw per-frame entries: no data item, or one data item with one token
RawEntries ==
    {FrameData(f, d) :
        f \in 0..MaxEntryFrame,
        d \in {<<>>} \cup {<<DataItem(<<tok>>)>> : tok \in EntryTokens}}

RawTracks == UNION {[1..n -> RawEntries] : n \in 0..MaxEntries}


\* the table name "t" and the cut "c"
TableName == <<116>>

CutName == <<99>>

\* time tables with one field, one header and one track of raw entries
TrackTables(field_id) ==
    {TimeTable(TableName, 3, <<Field(field_id, <<Track(0, fds)>>)>>,
               <<TimeTableHeader(field_id, <<NameA>>)>>) : fds \in RawTracks}

\* one raw entry at frame 0 with the token "1"
OneEntry == <<FrameData(0, <<DataItem(<<<<49>>>>)>>)>>

TrackLists ==
    {<<>>, <<Track(0, OneEntry)>>, <<Track(1, OneEntry), Track(0, <<>>)>>,
     <<Track(0, OneEntry), Track(2, OneEntry)>>}

FieldLists ==
    UNION {[1..n -> {Field(id, trs) : id \in {0, 4}, trs \in TrackLists}] : n \in 0..2}

HeaderLists ==
    UNION {[1..n -> {TimeTableHeader(id, ns) :
                        id \in {0, 4}, ns \in {<<>>, <<NameA>>, <<NameA, NameB>>}}] :
           n \in 0..2}

\* time tables with every combination of fields and headers
FieldTables == {TimeTable(TableName, 2, flds, hs) : flds \in FieldLists, hs \in HeaderLists}

\* a few time tables for documents with several tables
FewTables ==
    {TimeTable(TableName, 2, flds, <<TimeTableHeader(4, <<NameA>>)>>) :
        flds \in {<<>>, <<Field(4, <<Track(0, OneEntry)>>)>>, <<Field(0, <<Track(0, OneEntry)>>)>>}}

\* the k-th table of a document is named "t<k>"
Numbered(tts, base) ==
    [k \in 1..Len(tts) |-> [tts[k] EXCEPT !.name = TableName \o DecimalDigits(base + k)]]

TableLists == UNION {[1..n -> FewTables] : n \in 0..MaxTables}

XdtsContent(tts) == [kind |-> "xdts", root |-> [time_tables |-> tts]]

TdtsContent(sheets) == [kind |-> "tdts", root |-> [time_sheets |-> sheets]]

Malformed == [kind |-> "malformed", root |-> [time_tables |-> <<>>]]

XdtsContents ==
    {XdtsContent(<<tt>>) : tt \in TrackTables(0) \cup FieldTables}
        \cup {XdtsContent(Numbered(tts, 0)) : tts \in TableLists}

TdtsContents ==
    {TdtsContent(<<TimeSheet(CutName, <<tt>>)>>) : tt \in TrackTables(4) \cup FieldTables}
        \cup {TdtsContent(<<TimeSheet(CutName, Numbered(t1, 0)),
                            TimeSheet(CutName, Numbered(t2, MaxTables))>>) :
                 t1 \in TableLists, t2 \in TableLists}
        \cup {TdtsContent(<<>>)}

SomeExt(e) == [some |-> TRUE, v |-> e]

NoExt == [some |-> FALSE, v |-> <<>>]

\* the directory "d" and the stem "a"
DirD == <<100>>

StemA == <<97>>

\* extensions "xdts", "XDTS", "tdts", "Tdts", "json" and none
AllExts ==
    {SomeExt(ExtXdts), SomeExt(<<88, 68, 84, 83>>), SomeExt(ExtTdts),
     SomeExt(<<84, 100, 116, 115>>), SomeExt(<<106, 115, 111, 110>>), NoExt}

ParseInputs ==
    {<<Path(DirD, StemA, SomeExt(ExtXdts)), c>> : c \in XdtsContents}
        \cup {<<Path(DirD, StemA, SomeExt(ExtTdts)), c>> : c \in TdtsContents}
        \cup {<<Path(DirD, StemA, e), c>> :
                 e \in AllExts,
                 c \in {Malformed, XdtsContent(<<>>), TdtsContent(<<>>),
                        XdtsContent(Numbered(<<CHOOSE t \in FewTables : t.fields # <<>>>>, 0))}}

NotLoaded == [ok |-> FALSE, err |-> "none", value |-> <<>>]

PInit ==
    /\ \E input \in ParseInputs : in_path = input[1] /\ in_content = input[2]
    /\ loaded = NotLoaded
    /\ ppc = "ready"

\* one call of load_timesheets(in_path)
LoadTimesheets ==
    /\ ppc = "ready"
    /\ loaded' = load_timesheets(in_path, in_content)
    /\ ppc' = "loaded"
    /\ UNCHANGED <<in_path, in_content>>

\* ------------------------------------------------------------------------
\* The token mapping of Dialect A on one track (parser.rs:111-126, 192-210)
\* ------------------------------------------------------------------------
\* Bounds of the tracks
MaxCellEntries == 2
MaxCellFrame == 2

\* "CEL_7", "7", "007", "A", "", "1A3", "CEL_65535", "CEL_65536", "SYMBOL_TICK_3",
\* "A" followed by the non-ASCII digit U+0663
CellTokens ==
    {SymbolNullCell, SymbolTick1, SymbolTick2, SymbolHyphen,
     <<67, 69, 76, 95, 55>>, <<55>>, <<48, 48, 55>>, <<65>>, <<>>, <<49, 65, 51>>,
     <<67, 69, 76, 95, 54, 53, 53, 51, 53>>, <<67, 69, 76, 95, 54, 53, 53, 51, 54>>,
     <<83, 89, 77, 66, 79, 76, 95, 84, 73, 67, 75, 95, 51>>, <<65, 1635>>}

\* raw entries: a frame index and no data item, or one item with one token
CellEntries ==
    {FrameData(f, d) :
        f \in 0..MaxCellFrame,
        d \in {<<>>} \cup {<<DataItem(<<tok>>)>> : tok \in CellTokens}}

CellTracks == {Track(0, fds) : fds \in UNION {[1..n -> CellEntries] : n \in 0..MaxCellEntries}}

\* the duration of the time table: every entry's frame is inside the array
CellDuration == MaxCellFrame + 2

CInit ==
    /\ cell_track \in CellTracks
    /\ cell_values = <<>>
    /\ cell_frames = <<>>
    /\ cell_dense = <<>>
    /\ cell_pc = "ready"

\* parser.rs:111-126: every entry's first token goes through
\* parse_xdts_cell_value, the keyframes it yields are collected and compacted
ParseCells ==
    /\ cell_pc = "ready"
    /\ cell_values' = [k \in 1..Len(cell_track.frames) |->
            LET value == FirstValue(cell_track.frames[k])
            IN  IF value.some THEN parse_xdts_cell_value(value.v) ELSE None]
    /\ cell_frames' = optimize_frames(XdtsCandidates(cell_track))
    /\ cell_pc' = "parsed"
    /\ UNCHANGED <<cell_track, cell_dense>>

\* converter.rs:66: the dense array of the layer
ExpandCells ==
    /\ cell_pc = "parsed"
    /\ cell_dense' = expand_frames(cell_frames, CellDuration).cells
    /\ cell_pc' = "expanded"
    /\ UNCHANGED <<cell_track, cell_values, cell_frames>>

CNext ==
    \/ ParseCells
    \/ ExpandCells

\* ------------------------------------------------------------------------
\* The batch driver (main.rs)
\* ------------------------------------------------------------------------
\* Bound of the driver's input
MaxArgs == 2

\* ".sts", "_", "converted_sts"
ExtSts == <<46, 115, 116, 115>>

Underscore == <<95>>

ConvertedSts == <<99, 111, 110, 118, 101, 114, 116, 101, 100, 95, 115, 116, 115>>

\* length of the UTF-8 encoding of a code point
Utf8Len(c) == IF c < 128 THEN 1 ELSE IF c < 2048 THEN 2 ELSE IF c < 65536 THEN 3 ELSE 4

\* String::len
ByteLen(sq) == SumRange([k \in 1..Len(sq) |-> Utf8Len(sq[k])], 1, Len(sq))

\* main.rs:324-333; &safe_name[..100] panics when byte 100 is inside a character
SafeName(name) ==
    LET replaced == [k \in 1..Len(name) |-> IF name[k] \in {47, 92, 58} THEN 95 ELSE name[k]]
        cuts == {k \in 25..Min(100, Len(replaced)) : ByteLen(SubSeq(replaced, 1, k)) = 100}
    IN  IF ByteLen(replaced) > 100
        THEN IF cuts = {}
             THEN [panic |-> TRUE, v |-> <<>>]
             ELSE [panic |-> FALSE, v |-> SubSeq(replaced, 1, CHOOSE k \in cuts : TRUE)]
        ELSE [panic |-> FALSE, v |-> replaced]

\* format!("{:03}", i)
Pad3(i) ==
    LET d == DecimalDigits(i)
    IN  IF Len(d) >= 3 THEN d ELSE [k \in 1..(3 - Len(d)) |-> 48] \o d

\* main.rs:318-340
OutputName(input_path, sheets, i) ==
    IF Len(sheets) = 1
    THEN [panic |-> FALSE, v |-> input_path.stem \o ExtSts]
    ELSE LET safe_name == SafeName(sheets[i + 1].name)
         IN  [panic |-> safe_name.panic,
              v |-> input_path.stem \o Underscore \o Pad3(i) \o Underscore
                        \o safe_name.v \o ExtSts]

\* output_dir.join(output_name)
OutPath(dir, file) == [dir |-> dir, file |-> file]

\* ---- what is on disk ----
\* the time table "name" with one track in field 4 and its header
GoodTable(name, duration) ==
    TimeTable(name, duration, <<Field(4, <<Track(0, OneEntry)>>)>>,
              <<TimeTableHeader(4, <<NameA>>)>>)

\* directories "d", "e", "g", "h", the directory of the executable "x"
DirE == <<101>>

DirG == <<103>>

DirH == <<104>>

ExeDir == <<120>>

\* the document of c.tdts: three time tables, the second one over the frame limit
ThreeTables ==
    TdtsContent(<<TimeSheet(CutName,
        <<GoodTable(<<116, 49>>, 2), GoodTable(<<116, 50>>, MaxSaveFrameCount + 1),
          GoodTable(<<116, 51>>, 2)>>)>>)

\* the document of m.tdts: a table name of 95 ASCII characters, one of 30
\* three-byte characters, and a short one
LongNameTables ==
    TdtsContent(<<TimeSheet(CutName,
        <<GoodTable(Repeat(65, 95), 1), GoodTable(Repeat(12354, 30), 1),
          GoodTable(<<116, 51>>, 1)>>)>>)

DiskFiles ==
    {[path |-> Path(DirD, <<97>>, SomeExt(ExtXdts)), content |-> XdtsContent(<<GoodTable(TableName, 2)>>)],
     [path |-> Path(DirD, <<97>>, SomeExt(ExtTdts)),
      content |-> TdtsContent(<<TimeSheet(CutName, <<GoodTable(TableName, 3)>>)>>)],
     [path |-> Path(DirD, <<98>>, SomeExt(ExtXdts)), content |-> Malformed],
     [path |-> Path(DirD, <<99>>, SomeExt(ExtTdts)), content |-> ThreeTables],
     [path |-> Path(DirD, <<109>>, SomeExt(ExtTdts)), content |-> LongNameTables],
     [path |-> Path(DirD, <<110>>, SomeExt(<<116, 120, 116>>)), content |-> Malformed],
     [path |-> Path(DirE, <<97>>, SomeExt(<<88, 68, 84, 83>>)), content |-> XdtsContent(<<GoodTable(TableName, 2)>>)],
     [path |-> Path(DirE, <<98>>, SomeExt(ExtTdts)), content |-> Malformed],
     [path |-> Path(DirE, <<99>>, SomeExt(ExtTdts)), content |-> ThreeTables],
     [path |-> Path(DirE, <<110>>, SomeExt(<<116, 120, 116>>)), content |-> Malformed],
     [path |-> Path(DirG, <<97>>, SomeExt(ExtTdts)),
      content |-> TdtsContent(<<TimeSheet(CutName, <<GoodTable(TableName, 3)>>)>>)],
     [path |-> Path(DirG, <<98>>, SomeExt(ExtXdts)), content |-> XdtsContent(<<>>)]}

\* the directories, as paths, and a path that does not exist
DiskDirs == {Path(<<>>, DirE, NoExt), Path(<<>>, DirG, NoExt), Path(<<>>, DirH, NoExt)}

MissingPath == Path(DirD, <<122>>, SomeExt(ExtXdts))

IsFile(path) == \E f \in DiskFiles : f.path = path

IsDir(path) == path \in DiskDirs

ContentOf(path) == (CHOOSE f \in DiskFiles : f.path = path).content

\* the entries of a directory in sorted order (WalkDir, then files.sort())
DirEntries(dir) ==
    LET stems == <<<<97>>, <<98>>, <<99>>, <<109>>, <<110>>>>
        hit(k) == {f \in DiskFiles : f.path.dir = dir.stem /\ f.path.stem = stems[k]}
    IN  ConcatAll([k \in 1..Len(stems) |->
            IF hit(k) = {} THEN <<>> ELSE <<(CHOOSE f \in hit(k) : TRUE).path>>])

\* main.rs:124-130 and main.rs:377-381
HasTimesheetExt(path) ==
    path.ext.some /\ ToLowercase(path.ext.v) \in {ExtXdts, ExtTdts}

\* main.rs:367-388
find_timesheet_files(folder_path) ==
    SelectSeq(DirEntries(folder_path), HasTimesheetExt)

ArgPaths == {f.path : f \in DiskFiles} \cup DiskDirs \cup {MissingPath}

ArgLists == UNION {[1..n -> ArgPaths] : n \in 0..MaxArgs}

\* output paths whose creation the system may refuse
GuardedPaths == {OutPath(DirD, <<97>> \o ExtSts), OutPath(ExeDir \o <<47>> \o ConvertedSts, <<97>> \o ExtSts)}

Envs ==
    [console_ok : BOOLEAN, dir_ok : BOOLEAN, unwritable : {{}, GuardedPaths}]

NoDir == [some |-> FALSE, v |-> <<>>]

SomeDir(d) == [some |-> TRUE, v |-> d]

EmptyFs == [q \in {} |-> <<>>]

RInit ==
    /\ args \in ArgLists
    /\ env \in Envs
    /\ rpc = "start"
    /\ valid_files = <<>>
    /\ valid_folders = <<>>
    /\ is_single_file_mode = FALSE
    /\ folder_idx = 1
    /\ work = <<>>
    /\ work_idx = 1
    /\ output_dir = NoDir
    /\ timesheets = <<>>
    /\ ts_idx = 0
    /\ output_paths = <<>>
    /\ all_output_paths = <<>>
    /\ total_files = 0
    /\ fs = EmptyFs
    /\ conversions = <<>>
    /\ log = <<>>

\* main.rs:96-152: usage, the argument scan, the mode and the console
CollectArgs ==
    /\ rpc = "start"
    /\ LET files   == SelectSeq(args, LAMBDA a : IsFile(a) /\ HasTimesheetExt(a))
           folders == SelectSeq(args, IsDir)
           single  == Len(files) = 1 /\ folders = <<>>
           missing == ConcatAll([k \in 1..Len(args) |->
                          IF ~IsFile(args[k]) /\ ~IsDir(args[k])
                          THEN <<[kind |-> "path_missing", path |-> args[k]]>> ELSE <<>>])
       IN  IF args = <<>>
           THEN /\ log' = <<[kind |-> "usage_dialog"]>>
                /\ rpc' = "done"
                /\ UNCHANGED <<valid_files, valid_folders, is_single_file_mode, work>>
           ELSE /\ valid_files' = files
                /\ valid_folders' = folders
                /\ is_single_file_mode' = single
                /\ work' = files
                /\ IF ~single /\ ~env.console_ok
                   THEN /\ log' = missing \o <<[kind |-> "no_console_dialog"]>>
                        /\ rpc' = "done"
                   ELSE /\ log' = missing
                        /\ rpc' = "next_file"
    /\ UNCHANGED <<args, env, folder_idx, work_idx, output_dir, timesheets, ts_idx,
                   output_paths, all_output_paths, total_files, fs, conversions>>

\* main.rs:173 / main.rs:233 with process_file up to main.rs:313: the file is
\* loaded; a load error comes back to run, which reports it outside
\* single-file mode and goes on with the next file
BeginFile ==
    /\ rpc = "next_file"
    /\ work_idx <= Len(work)
    /\ LET input_path == work[work_idx]
           r == load_timesheets(input_path, ContentOf(input_path))
       IN  IF r.ok
           THEN /\ timesheets' = r.value
                /\ ts_idx' = 0
                /\ output_paths' = <<>>
                /\ rpc' = "saving"
                /\ UNCHANGED <<work_idx, log>>
           ELSE /\ log' = IF is_single_file_mode THEN log
                          ELSE Append(log, [kind |-> "file_failed", path |-> input_path])
                /\ work_idx' = work_idx + 1
                /\ UNCHANGED <<timesheets, ts_idx, output_paths, rpc>>
    /\ UNCHANGED <<args, env, valid_files, valid_folders, is_single_file_mode, folder_idx,
                   work, output_dir, all_output_paths, total_files, fs, conversions>>

\* main.rs:316-362, one pass of the loop over the timesheets of a file
SaveTimesheet ==
    /\ rpc = "saving"
    /\ ts_idx < Len(timesheets)
    /\ \E name \in {OutputName(work[work_idx], timesheets, ts_idx)} :
          IF name.panic
          THEN /\ rpc' = "panicked"
               /\ UNCHANGED <<ts_idx, output_paths, fs, conversions, log>>
          ELSE LET input_path == work[work_idx]
                   ts    == timesheets[ts_idx + 1]
                   quiet == ~output_dir.some /\ is_single_file_mode
                   dir   == IF output_dir.some THEN output_dir.v ELSE input_path.dir
                   path  == OutPath(dir, name.v)
                   old   == IF path \in DOMAIN fs
                            THEN [exists |-> TRUE, bytes |-> fs[path]] ELSE NoFile
               IN  \E r \in {save_sts(ts, old, [create |-> path \notin env.unwritable,
                                                fail_write |-> 0])} :
                      /\ conversions' = Append(conversions,
                              [input |-> input_path, index |-> ts_idx, out |-> path,
                               result |-> r.result])
                      /\ fs' = IF r.file.exists
                               THEN [q \in DOMAIN fs \cup {path} |->
                                        IF q = path THEN r.file.bytes ELSE fs[q]]
                               ELSE fs
                      /\ output_paths' = IF r.result = "Ok" THEN Append(output_paths, path)
                                         ELSE output_paths
                      /\ log' = IF r.result # "Ok" /\ ~quiet
                                THEN Append(log, [kind |-> "timesheet_failed",
                                                  path |-> input_path, index |-> ts_idx])
                                ELSE log
                      /\ ts_idx' = ts_idx + 1
                      /\ rpc' = rpc
    /\ UNCHANGED <<args, env, valid_files, valid_folders, is_single_file_mode, folder_idx,
                   work, work_idx, output_dir, timesheets, all_output_paths, total_files>>

\* main.rs:364 and main.rs:174-180 / main.rs:234-238: process_file returns its
\* paths and run counts the file
EndFile ==
    /\ rpc = "saving"
    /\ ts_idx >= Len(timesheets)
    /\ all_output_paths' = all_output_paths \o output_paths
    /\ total_files' = total_files + 1
    /\ work_idx' = work_idx + 1
    /\ rpc' = "next_file"
    /\ UNCHANGED <<args, env, valid_files, valid_folders, is_single_file_mode, folder_idx,
                   work, output_dir, timesheets, ts_idx, output_paths, fs, conversions, log>>

\* the end of the loop over valid_files (main.rs:187) or timesheet_files (main.rs:243)
EndFiles ==
    /\ rpc = "next_file"
    /\ work_idx > Len(work)
    /\ rpc' = "next_folder"
    /\ UNCHANGED <<args, env, valid_files, valid_folders, is_single_file_mode, folder_idx,
                   work, work_idx, output_dir, timesheets, ts_idx, output_paths,
                   all_output_paths, total_files, fs, conversions, log>>

\* main.rs:191-221: the folder is scanned and the output directory created;
\* a failure of create_dir_all ends run with an error, which main shows
BeginFolder ==
    /\ rpc = "next_folder"
    /\ folder_idx <= Len(valid_folders)
    /\ LET timesheet_files == find_timesheet_files(valid_folders[folder_idx])
       IN  IF timesheet_files = <<>>
           THEN /\ folder_idx' = folder_idx + 1
                /\ UNCHANGED <<rpc, work, work_idx, output_dir, log>>
           ELSE IF ~env.dir_ok
           THEN /\ rpc' = "failed"
                /\ log' = Append(log, [kind |-> "error_dialog"])
                /\ UNCHANGED <<folder_idx, work, work_idx, output_dir>>
           ELSE /\ work' = timesheet_files
                /\ work_idx' = 1
                /\ output_dir' = SomeDir(ExeDir \o <<47>> \o ConvertedSts)
                /\ folder_idx' = folder_idx + 1
                /\ rpc' = "next_file"
                /\ UNCHANGED log
    /\ UNCHANGED <<args, env, valid_files, valid_folders, is_single_file_mode,
                   timesheets, ts_idx, output_paths, all_output_paths, total_files,
                   fs, conversions>>

\* main.rs:246-284: the failure dialog of single-file mode, or the summary
Finish ==
    /\ rpc = "next_folder"
    /\ folder_idx > Len(valid_folders)
    /\ log' = IF is_single_file_mode /\ ~(total_files > 0 /\ all_output_paths # <<>>)
              THEN Append(log, [kind |-> "failed_dialog"])
              ELSE log
    /\ rpc' = "done"
    /\ UNCHANGED <<args, env, valid_files, valid_folders, is_single_file_mode, folder_idx,
                   work, work_idx, output_dir, timesheets, ts_idx, output_paths,
                   all_output_paths, total_files, fs, conversions>>

RNext ==
    \/ CollectArgs
    \/ BeginFile
    \/ SaveTimesheet
    \/ EndFile
    \/ EndFiles
    \/ BeginFolder
    \/ Finish

vars == <<kvars, svars, pvars, rvars, cvars>>

KIdle ==
    /\ cands = <<>>
    /\ frames = <<>>
    /\ frame_count = 0
    /\ cells = [cells |-> <<>>, oob |-> FALSE]
    /\ rederived = <<>>
    /\ kpc = "idle"

SIdle ==
    /\ timesheet = [name |-> <<>>, frame_count |-> 0, layers |-> <<>>]
    /\ out_file = NoFile
    /\ save_result = NoResult
    /\ save_io = NoIO
    /\ spc = "idle"

PIdle ==
    /\ in_path = Path(<<>>, <<>>, NoExt)
    /\ in_content = Malformed
    /\ loaded = NotLoaded
    /\ ppc = "idle"

RIdle ==
    /\ args = <<>>
    /\ env = [console_ok |-> TRUE, dir_ok |-> TRUE, unwritable |-> {}]
    /\ rpc = "idle"
    /\ valid_files = <<>>
    /\ valid_folders = <<>>
    /\ is_single_file_mode = FALSE
    /\ folder_idx = 1
    /\ work = <<>>
    /\ work_idx = 1
    /\ output_dir = NoDir
    /\ timesheets = <<>>
    /\ ts_idx = 0
    /\ output_paths = <<>>
    /\ all_output_paths = <<>>
    /\ total_files = 0
    /\ fs = EmptyFs
    /\ conversions = <<>>
    /\ log = <<>>

CIdle ==
    /\ cell_track = Track(0, <<>>)
    /\ cell_values = <<>>
    /\ cell_frames = <<>>
    /\ cell_dense = <<>>
    /\ cell_pc = "idle"

\* the keyframe pipeline
Init == KInit /\ SIdle /\ PIdle /\ RIdle /\ CIdle

Next == KNext /\ UNCHANGED <<svars, pvars, rvars, cvars>>

Spec == Init /\ [][Next]_vars

\* the encoder
SaveInit == SInit /\ KIdle /\ PIdle /\ RIdle /\ CIdle

SaveNext == SaveSts /\ UNCHANGED <<kvars, pvars, rvars, cvars>>

SpecSave == SaveInit /\ [][SaveNext]_vars

\* the normalizer
ParseInit == PInit /\ KIdle /\ SIdle /\ RIdle /\ CIdle

ParseNext == LoadTimesheets /\ UNCHANGED <<kvars, svars, rvars, cvars>>

SpecParse == ParseInit /\ [][ParseNext]_vars

\* the batch driver
RunInit == RInit /\ KIdle /\ SIdle /\ PIdle /\ CIdle

RunNext == RNext /\ UNCHANGED <<kvars, svars, pvars, cvars>>

SpecRun == RunInit /\ [][RunNext]_vars

\* the token mapping of Dialect A
CellInit == CInit /\ KIdle /\ SIdle /\ PIdle /\ RIdle

CellNext == CNext /\ UNCHANGED <<kvars, svars, pvars, rvars>>

SpecCell == CellInit /\ [][CellNext]_vars

\* ------------------------------------------------------------------------
\* Predicates on keyframe lists
\* ------------------------------------------------------------------------
StrictlyIncreasing(fr) == \A j \in 1..(Len(fr) - 1) : fr[j].frame < fr[j + 1].frame

NoAdjacentEqual(fr) == \A j \in 1..(Len(fr) - 1) : fr[j].cell # fr[j + 1].cell

IsCompacted(fr) ==
    /\ fr # <<>>
    /\ fr[1].frame = 0
    /\ StrictlyIncreasing(fr)
    /\ NoAdjacentEqual(fr)

\* cell of the last candidate at or before position p (0-based), 0 when none
HeldCell(fr, p) ==
    LET at == {j \in 1..Len(fr) : fr[j].frame <= p}
    IN  IF at = {} THEN 0
        ELSE fr[CHOOSE j \in at : \A k \in at : k <= j].cell


\* ------------------------------------------------------------------------
\* Claims about the keyframe pipeline (specification Spec)
\* ------------------------------------------------------------------------

\* C1: after optimize_frames has run on any candidate list, no two adjacent
\* keyframes of the result have the same cell value.
C1_NoAdjacentDuplicate ==
    kpc # "candidates" => NoAdjacentEqual(frames)

\* C1 witness: a run of three equal cells 0 that does not start at index 0, so
\* that the synthetic (0,0) keyframe is prepended in front of a cell-0 run.
C1_Witness ==
    /\ kpc = "compacted"
    /\ Len(cands) = 3
    /\ cands[1].frame # 0
    /\ \A j \in 1..3 : cands[j].cell = 0
    /\ frames = <<Frame(0, 0)>>

\* C2: a non-empty list produced by optimize_frames starts at frame index 0;
\* an empty candidate list stays empty and a single keyframe at index 0 is
\* left unchanged.
C2_FirstFrameZero ==
    kpc # "candidates" =>
        /\ (frames # <<>> => frames[1].frame = 0)
        /\ (cands = <<>> <=> frames = <<>>)
        /\ (Len(cands) = 1 /\ cands[1].frame = 0 => frames = cands)

\* C2 witness: the first candidate is not at index 0 and has a non-zero cell,
\* so the result starts with the synthetic keyframe followed by the candidate.
C2_Witness ==
    /\ kpc = "compacted"
    /\ cands # <<>>
    /\ cands[1].frame # 0
    /\ cands[1].cell # 0
    /\ Len(frames) >= 2
    /\ frames[1] = Frame(0, 0)

\* C4: for candidates with strictly increasing frame indices,
\* expand_frames(optimize_frames(candidates), frame_count) has exactly
\* frame_count values, position p holds the cell of the last candidate at or
\* before p (0 when there is none), and no write is out of range; the
\* candidates (0,0),(2,3),(4,3) with frame_count 5 give [0,0,3,3,3].
C4_DenseView ==
    /\ kpc \in {"expanded", "rederived"} /\ StrictlyIncreasing(cands) =>
          /\ ~cells.oob
          /\ Len(cells.cells) = frame_count
          /\ \A p \in 1..frame_count : cells.cells[p] = HeldCell(cands, p - 1)
    /\ kpc = "expanded" =>
          expand_frames(optimize_frames(<<Frame(0, 0), Frame(2, 3), Frame(4, 3)>>), 5).cells
              = <<0, 0, 3, 3, 3>>

\* C4 witness: compaction dropped a repeated cell and a candidate lies at or
\* beyond frame_count, while some earlier candidate is visible in the array.
C4_Witness ==
    /\ kpc = "expanded"
    /\ StrictlyIncreasing(cands)
    /\ Len(cands) = 3
    /\ Len(frames) < Len(cands)
    /\ cands[3].frame >= frame_count
    /\ cands[1].frame < frame_count
    /\ cands[1].cell # 0

\* C5: for a compacted list L (first index 0, strictly increasing indices, no
\* adjacent equal cells) and frame_count >= max(frame_index)+1, scanning
\* expand_frames(L, frame_count) for value changes and applying
\* optimize_frames gives L back.
C5_ExpandCompactInverse ==
    (/\ kpc = "rederived"
     /\ IsCompacted(frames)
     /\ frame_count >= frames[Len(frames)].frame + 1) => rederived = frames

\* C5 witness: a compacted list of three keyframes whose first cell is not 0,
\* expanded over more frames than its last index and re-derived.
C5_Witness ==
    /\ kpc = "rederived"
    /\ IsCompacted(frames)
    /\ Len(frames) = 3
    /\ frames[1].cell # 0
    /\ frame_count > frames[3].frame + 1
    /\ rederived = frames


\* ------------------------------------------------------------------------
\* Claims about the encoder (specification SpecSave)
\* ------------------------------------------------------------------------
Min255(n) == IF n > 255 THEN 255 ELSE n

\* C6: save_sts fails on a limit exactly when the Timesheet has more than 255
\* layers or a frame_count above 65535; within the limits it succeeds when the
\* file can be created and written; a rejection for a limit leaves the output
\* path as it was (not created, not modified).
C6_BoundsEnforcement ==
    [][spc' = "saved" =>
         LET over == Len(timesheet.layers) > 255 \/ timesheet.frame_count > 65535
         IN  /\ (save_result'.result = "LimitExceeded") <=> over
             /\ over => out_file' = out_file
             /\ (~over /\ save_io'.create /\ save_io'.fail_write = 0)
                    => save_result'.result = "Ok"
             /\ save_result'.result = "Ok" => ~over]_vars

\* C6 witness: 256 layers are rejected although the file could be created, and
\* the file that was at the output path is still there.
C6_Witness ==
    /\ spc = "saved"
    /\ Len(timesheet.layers) = 256
    /\ save_io.create
    /\ save_result.result = "LimitExceeded"
    /\ out_file = [exists |-> TRUE, bytes |-> <<9>>]

\* C7: the file of an accepted Timesheet is 0x11, the 17 identifier bytes, the
\* number of layers in one byte, frame_count in two little-endian bytes, two
\* zero bytes, frame_count little-endian 16-bit cells per layer in layer
\* order, then per layer a length byte n <= 255 and the first n bytes of the
\* encoded name (n = 255 for a longer name).
C7_FileLayout ==
    (spc = "saved" /\ save_result.result = "Ok") =>
        LET b   == out_file.bytes
            ls  == timesheet.layers
            n   == Len(ls)
            fc  == timesheet.frame_count
            enc == [l \in 1..n |-> SJISEncode(ls[l].name).bytes]
            nl  == [l \in 1..n |-> Min255(Len(enc[l]))]
            off == [l \in 1..(n + 1) |-> 23 + 2 * n * fc + SumRange(nl, 1, l - 1) + (l - 1)]
        IN  /\ out_file.exists
            /\ Len(b) = off[n + 1]
            /\ \A k \in 1..Len(b) : b[k] \in 0..255
            /\ b[1] = 17
            /\ Len(Identifier) = 17
            /\ \A k \in 1..17 : b[1 + k] = Identifier[k]
            /\ b[19] = n
            /\ b[20] + 256 * b[21] = fc
            /\ b[22] = 0 /\ b[23] = 0
            /\ \A l \in 1..n :
                  LET dense == Materialize(expand_frames(ls[l].frames, fc).cells)
                  IN  \A p \in 1..fc :
                        LET at == 23 + 2 * ((l - 1) * fc + (p - 1))
                        IN  b[at + 1] + 256 * b[at + 2] = dense[p]
            /\ \A l \in 1..n :
                  /\ b[off[l] + 1] = nl[l]
                  /\ SubSeq(b, off[l] + 2, off[l] + 1 + nl[l]) = SubSeq(enc[l], 1, nl[l])

\* C7 witness: an accepted sheet whose layer name encodes to 256 bytes and is
\* written as 255 bytes after the length byte 255.
C7_Witness ==
    /\ spc = "saved"
    /\ save_result.result = "Ok"
    /\ Len(timesheet.layers) = 1
    /\ Len(SJISEncode(timesheet.layers[1].name).bytes) = 256
    /\ timesheet.frame_count = 2
    /\ out_file.bytes[28] = 255
    /\ Len(out_file.bytes) = 23 + 4 + 1 + 255


\* ------------------------------------------------------------------------
\* Claims about the normalizer (specification SpecParse)
\* ------------------------------------------------------------------------
IsXdts(path) == path.ext.some /\ ToLowercase(path.ext.v) = ExtXdts

IsTdts(path) == path.ext.some /\ ToLowercase(path.ext.v) = ExtTdts

\* every time table of the loaded document with the name its Timesheet gets
\* and the index of its selected field (0 when the field is absent)
DocTables ==
    IF in_content.kind = "xdts"
    THEN [k \in 1..Len(in_content.root.time_tables) |->
            LET tt == in_content.root.time_tables[k]
            IN  [name |-> FileName(in_path) \o Arrow \o tt.name,
                 table |-> tt,
                 selected |-> IF tt.fields = <<>> THEN 0 ELSE 1]]
    ELSE ConcatAll([i \in 1..Len(in_content.root.time_sheets) |->
            LET sh == in_content.root.time_sheets[i]
            IN  [k \in 1..Len(sh.time_tables) |->
                    [name |-> FileName(in_path) \o Arrow \o sh.header.cut
                                  \o Arrow \o sh.time_tables[k].name,
                     table |-> sh.time_tables[k],
                     selected |-> FindField(sh.time_tables[k].fields, 4)]]])

LoadedDocument ==
    /\ ppc = "loaded"
    /\ loaded.ok
    /\ (IsXdts(in_path) /\ in_content.kind = "xdts")
           \/ (IsTdts(in_path) /\ in_content.kind = "tdts")

\* C3: every Layer stored on a Timesheet by the normalizer has keyframes in
\* strictly increasing frame_index order, whatever the order of the raw
\* per-frame entries of the track.
C3_LayersStrictlyIncreasing ==
    LoadedDocument =>
        \A k \in 1..Len(loaded.value) :
            \A l \in 1..Len(loaded.value[k].layers) :
                StrictlyIncreasing(loaded.value[k].layers[l].frames)

\* C8: load_tdts produces a Timesheet for exactly the time tables that have a
\* field with identifier 4, in document order; a time table without such a
\* field produces none.
C8_OnlyTablesWithField4 ==
    (LoadedDocument /\ in_content.kind = "tdts") =>
        LET with4 == SelectSeq(DocTables, LAMBDA d : d.selected # 0)
        IN  /\ Len(loaded.value) = Len(with4)
            /\ \A k \in 1..Len(with4) : loaded.value[k].name = with4[k].name

\* C9: a time table whose selected field is present gives a Timesheet with
\* exactly one Layer per track of that field, in track order, named by the
\* header name at the track's index or "Layer <index>" when there is none.
C9_OneLayerPerTrack ==
    LoadedDocument =>
        \A d \in 1..Len(DocTables) :
            DocTables[d].selected # 0 =>
                LET tt     == DocTables[d].table
                    field  == tt.fields[DocTables[d].selected]
                    h      == FindHeader(tt.time_table_headers, field.field_id)
                    names  == IF h = 0 THEN <<>> ELSE tt.time_table_headers[h].names
                IN  \E k \in 1..Len(loaded.value) :
                        /\ loaded.value[k].name = DocTables[d].name
                        /\ Len(loaded.value[k].layers) = Len(field.tracks)
                        /\ \A t \in 1..Len(field.tracks) :
                              loaded.value[k].layers[t].name =
                                  IF field.tracks[t].track_no < Len(names)
                                  THEN names[field.tracks[t].track_no + 1]
                                  ELSE SyntheticName(field.tracks[t].track_no)


\* ------------------------------------------------------------------------
\* Claims about the batch driver (specification SpecRun)
\* ------------------------------------------------------------------------
\* the input files a run is asked to convert: the timesheet files among the
\* arguments, then the timesheet files of every folder among the arguments
RunInputs ==
    SelectSeq(args, LAMBDA a : IsFile(a) /\ HasTimesheetExt(a))
        \o ConcatAll([k \in 1..Len(args) |->
               IF IsDir(args[k]) THEN find_timesheet_files(args[k]) ELSE <<>>])

WithinLimits(ts) == Len(ts.layers) <= 255 /\ ts.frame_count <= 65535

\* the inputs of the run, each with the result of loading it
LoadedInputs ==
    [k \in 1..Len(RunInputs) |->
        [input |-> RunInputs[k],
         result |-> load_timesheets(RunInputs[k], ContentOf(RunInputs[k]))]]

\* some input fails to parse, or some timesheet fails the limits
SomeItemFails(loads) ==
    \E k \in 1..Len(loads) :
        \/ ~loads[k].result.ok
        \/ \E i \in 1..Len(loads[k].result.value) : ~WithinLimits(loads[k].result.value[i])

\* the system refuses nothing: the console and the output directory can be
\* created and every output path can be written
SystemAllows ==
    /\ env.console_ok
    /\ env.dir_ok
    /\ env.unwritable = {}

RunEnded == rpc \in {"done", "failed", "panicked"}

Converted(input, i) ==
    \E c \in 1..Len(conversions) :
        /\ conversions[c].input = input
        /\ conversions[c].index = i
        /\ conversions[c].result = "Ok"
        /\ conversions[c].out \in DOMAIN fs

\* C10: in a batch with several inputs in which some file fails to parse or
\* some timesheet fails the limits, the run goes on: when it has ended, every
\* timesheet that loads and is within the limits has been converted and
\* written.
C10_BatchContinues ==
    (RunEnded /\ SystemAllows) =>
        \A loads \in {Materialize(LoadedInputs)} :
            (Len(loads) >= 2 /\ SomeItemFails(loads)) =>
                \A k \in 1..Len(loads) :
                    loads[k].result.ok =>
                        \A i \in 1..Len(loads[k].result.value) :
                            WithinLimits(loads[k].result.value[i])
                                => Converted(loads[k].input, i - 1)

\* ------------------------------------------------------------------------
\* Claims about the token mapping of Dialect A (specification SpecCell)
\* ------------------------------------------------------------------------
\* the maximal run of trailing decimal digits of a token, as a split of it
IsTrailingRun(tok, n) ==
    /\ n \in 0..Len(tok)
    /\ \A j \in (Len(tok) - n + 1)..Len(tok) : tok[j] \in 48..57
    /\ n < Len(tok) => tok[Len(tok) - n] \notin 48..57

\* the decimal value of the last n characters of a token
RunValue(tok, n) ==
    SumRange([j \in 1..n |-> (tok[Len(tok) - n + j] - 48) * 10 ^ (n - j)], 1, n)

\* the entries of the track that carry a token, by index
TokenEntries == {k \in 1..Len(cell_track.frames) : FirstValue(cell_track.frames[k]).some}

TokenOf(k) == FirstValue(cell_track.frames[k]).v

\* no entry at timeline position p yields a keyframe, and some entry is there
HoldPosition(p) ==
    /\ \E k \in 1..Len(cell_track.frames) : cell_track.frames[k].frame = p
    /\ \A k \in 1..Len(cell_track.frames) :
          cell_track.frames[k].frame = p => ~cell_values[k].some

\* the dense array keeps at a position without keyframe what it holds just
\* before it (the blank cell 0 at the start of the timeline)
HoldsOver ==
    cell_pc = "expanded" =>
        \A p \in 0..(CellDuration - 1) :
            HoldPosition(p) =>
                cell_dense[p + 1] = IF p = 0 THEN 0 ELSE cell_dense[p]

\* the symbolic tokens: the null cell gives 0, ticks and hyphen give nothing
SymbolMapping(k) ==
    /\ TokenOf(k) = SymbolNullCell => cell_values[k] = Some(0)
    /\ TokenOf(k) \in {SymbolTick1, SymbolTick2, SymbolHyphen} => ~cell_values[k].some

IsSymbol(tok) == tok \in {SymbolNullCell, SymbolTick1, SymbolTick2, SymbolHyphen}

\* C11 as stated: the null cell gives 0; ticks and hyphen give no keyframe;
\* any other token gives the value of its maximal run of trailing digits as a
\* 16-bit integer, and no keyframe when it has no trailing digit; a position
\* without keyframe keeps the prior value in the dense array.
C11_AnyTokenGivesItsDigits ==
    cell_pc \in {"parsed", "expanded"} =>
        /\ \A k \in TokenEntries :
              /\ SymbolMapping(k)
              /\ ~IsSymbol(TokenOf(k)) =>
                    \A n \in 0..Len(TokenOf(k)) :
                        IsTrailingRun(TokenOf(k), n) =>
                            IF n = 0 THEN ~cell_values[k].some
                            ELSE /\ cell_values[k].some
                                 /\ cell_values[k].v % 65536 = RunValue(TokenOf(k), n) % 65536
        /\ HoldsOver

\* C11, amended: the null cell gives 0; ticks and hyphen give no keyframe; any
\* other token gives the value of its maximal run of trailing digits when
\* that value is at most 65535, and no keyframe when it has no trailing
\* digit or the value is above 65535; a position without keyframe keeps the
\* prior value in the dense array.
C11_TokenMapping ==
    cell_pc \in {"parsed", "expanded"} =>
        /\ \A k \in TokenEntries :
              /\ SymbolMapping(k)
              /\ ~IsSymbol(TokenOf(k)) =>
                    \A n \in 0..Len(TokenOf(k)) :
                        IsTrailingRun(TokenOf(k), n) =>
                            IF n = 0 \/ RunValue(TokenOf(k), n) > 65535
                            THEN ~cell_values[k].some
                            ELSE cell_values[k] = Some(RunValue(TokenOf(k), n))
        /\ HoldsOver

\* "CEL_7" at frame 0 gives 7, "SYMBOL_TICK_1" at frame 1 gives no keyframe
\* and the dense array holds 7 there
C11_Witness ==
    /\ cell_pc = "expanded"
    /\ Len(cell_track.frames) = 2
    /\ cell_track.frames[1] = FrameData(0, <<DataItem(<<<<67, 69, 76, 95, 55>>>>)>>)
    /\ cell_track.frames[2] = FrameData(1, <<DataItem(<<SymbolTick1>>)>>)
    /\ cell_values = <<Some(7), None>>
    /\ cell_dense[2] = 7

\* ------------------------------------------------------------------------
\* Claims about reports and output paths of the batch driver (SpecRun)
\* ------------------------------------------------------------------------
\* the failure of conversion c reached the user: the error lines of
\* process_file (main.rs:357-358) or the failure dialog of run (main.rs:254)
Reported(c) ==
    \E l \in 1..Len(log) :
        \/ /\ log[l].kind = "timesheet_failed"
           /\ log[l].path = conversions[c].input
           /\ log[l].index = conversions[c].index
        \/ log[l].kind = "failed_dialog"

\* C12: when the run is over, every timesheet for which save_sts failed has
\* been reported to the user, by an error line or by the failure dialog, in
\* every mode, single-file mode with several timesheets included.
C12_SaveFailureReported ==
    rpc = "done" =>
        \A c \in 1..Len(conversions) :
            conversions[c].result # "Ok" => Reported(c)

\* C13: within one run, two different (input file, timesheet) pairs are never
\* written to the same output path, so no STS file written earlier in the
\* run is overwritten by a later conversion.
C13_DistinctOutputPaths ==
    \A c1, c2 \in 1..Len(conversions) :
        /\ conversions[c1].result = "Ok"
        /\ conversions[c2].result = "Ok"
        /\ <<conversions[c1].input, conversions[c1].index>>
               # <<conversions[c2].input, conversions[c2].index>>
        => conversions[c1].out # conversions[c2].out

====
